---- MODULE Spec2Model ----
(***************************************************************************)
(* Model of OnigmoRegExEngine.cxx: the adapter that puts Scintilla's       *)
(* RegexSearchBase (FindText / SubstituteByPosition) on the Onigmo engine. *)
(*                                                                         *)
(* Text is a sequence of bytes (Integers): std::string, the document and   *)
(* the templates are all sequences of char codes.  Positions are 0-based   *)
(* as in the source; At(s, i) reads s[i].                                  *)
(***************************************************************************)
EXTENDS Integers, Sequences, FiniteSets, TLC

(***************************************************************************)
(* Characters.                                                             *)
(***************************************************************************)
Ascii ==
  ("\\" :> 92) @@ ("$" :> 36) @@ ("(" :> 40) @@ (")" :> 41) @@ ("." :> 46) @@
  ("-" :> 45) @@ (" " :> 32) @@ ("?" :> 63) @@ ("=" :> 61) @@ ("!" :> 33) @@
  ("<" :> 60) @@ (">" :> 62) @@ ("_" :> 95) @@
  ("0" :> 48) @@ ("1" :> 49) @@ ("2" :> 50) @@ ("3" :> 51) @@ ("4" :> 52) @@
  ("5" :> 53) @@ ("6" :> 54) @@ ("7" :> 55) @@ ("8" :> 56) @@ ("9" :> 57) @@
  ("A" :> 65) @@ ("B" :> 66) @@ ("F" :> 70) @@ ("Z" :> 90) @@
  ("a" :> 97) @@ ("b" :> 98) @@ ("f" :> 102) @@ ("n" :> 110) @@ ("o" :> 111) @@
  ("r" :> 114) @@ ("t" :> 116) @@ ("u" :> 117) @@ ("v" :> 118) @@ ("w" :> 119) @@
  ("x" :> 120) @@ ("y" :> 121) @@ ("z" :> 122)

Chr(c) == Ascii[c]

\* A string written as a tuple of one-character strings, as a byte sequence.
Str(s) == [i \in 1..Len(s) |-> Ascii[s[i]]]

\* The bytes the C escapes \a \b \f \n \r \t \v stand for.
CtrlChar == ("a" :> 7) @@ ("b" :> 8) @@ ("f" :> 12) @@ ("n" :> 10) @@
            ("r" :> 13) @@ ("t" :> 9) @@ ("v" :> 11)

MaxOf(a, b) == IF a >= b THEN a ELSE b

\* std::string::operator[] : s[i] for i < size(), and the terminating '\0'
\* at i = size() (defined since C++11).  Callers never pass i > size().
At(s, i) == IF i < Len(s) THEN s[i + 1] ELSE 0

\* s.substr(pos): the text from 0-based pos to the end.
Substr(s, pos) == SubSeq(s, pos + 1, Len(s))

\* the text of s in the 0-based half-open range [from, to)
Slice(s, from, to) == SubSeq(s, from + 1, to)

(***************************************************************************)
(* UnSlash helper.                                                         *)
(***************************************************************************)
GetHexDigit(ch) ==
  IF ch >= Chr("0") /\ ch <= Chr("9") THEN ch - Chr("0")
  ELSE IF ch >= Chr("A") /\ ch <= Chr("F") THEN ch - Chr("A") + 10
  ELSE IF ch >= Chr("a") /\ ch <= Chr("f") THEN ch - Chr("a") + 10
  ELSE -1

(***************************************************************************)
(* replaceAll(source, from, to): every occurrence of `from`, found left    *)
(* to right from the end of the previous occurrence, becomes `to`.         *)
(***************************************************************************)
npos == -1

StartsAt(source, from, p) ==
  /\ p + Len(from) <= Len(source)
  /\ Slice(source, p, p + Len(from)) = from

\* std::string::find(from, lastPos)
StrFind(source, from, lastPos) ==
  LET hits == {p \in lastPos..Len(source) : StartsAt(source, from, p)}
  IN  IF hits = {} THEN npos ELSE CHOOSE p \in hits : \A q \in hits : p <= q

RECURSIVE replaceAllLoop(_, _, _, _, _)
replaceAllLoop(source, from, to, lastPos, newString) ==
  LET Step(findPos) ==
        IF findPos = npos
        THEN newString \o Substr(source, lastPos)
        ELSE replaceAllLoop(source, from, to, findPos + Len(from),
                            newString \o Slice(source, lastPos, findPos) \o to)
  IN  Step(StrFind(source, from, lastPos))

replaceAll(source, from, to) == replaceAllLoop(source, from, to, 0, <<>>)

(***************************************************************************)
(* translateRegExpr: the editor's pattern dialect to the engine's.         *)
(* Returns the engine text and the options after the EOL step.             *)
(***************************************************************************)
SC_EOL_CRLF == 0
SC_EOL_CR == 1
SC_EOL_LF == 2

WordBegin == Str(<<"\\", "<">>)
WordBeginRx == Str(<<"(", "?", "<", "!", "\\", "w", ")", "(", "?", "=", "\\", "w", ")">>)
WordEnd == Str(<<"\\", ">">>)
WordEndRx == Str(<<"(", "?", "<", "=", "\\", "w", ")", "(", "?", "!", "\\", "w", ")">>)
EolRx == <<Chr("("), Chr("?"), Chr("="), Chr("\\"), Chr("r"), Chr(")")>>

\* A word wrap that leaves the '.' of the pattern alone.
WordWrapKeepsDots(regExprStr, wholeWord, wordStart) ==
  IF wholeWord \/ wordStart
  THEN Str(<<"\\", "b">>) \o regExprStr
         \o (IF wholeWord THEN Str(<<"\\", "b">>) ELSE <<>>)
  ELSE regExprStr

\* Lines 432-446
WordWrap(regExprStr, wholeWord, wordStart) ==
  IF wholeWord \/ wordStart
  THEN replaceAll(Str(<<"\\", "b">>) \o regExprStr
                    \o (IF wholeWord THEN Str(<<"\\", "b">>) ELSE <<>>),
                  Str(<<".">>), Str(<<"\\", "w">>))
  ELSE regExprStr

WordBoundaries(tmpStr) ==
  LET s1 == replaceAll(tmpStr, WordBegin, WordBeginRx)
      s2 == replaceAll(s1, <<Chr("\\")>> \o WordBeginRx, <<Chr("\\")>> \o WordBegin)
      s3 == replaceAll(s2, WordEnd, WordEndRx)
  IN  replaceAll(s3, <<Chr("\\")>> \o WordEndRx, <<Chr("\\")>> \o WordEnd)

EolStep(tmpStr, eolMode) ==
  IF eolMode = SC_EOL_CR
  THEN replaceAll(replaceAll(tmpStr, Str(<<"$">>), EolRx),
                  <<Chr("\\")>> \o EolRx, Str(<<"\\", "$">>))
  ELSE tmpStr

EolOptions(eolMode, rxOptions) ==
  IF eolMode = SC_EOL_CRLF THEN rxOptions \cup {"NEWLINE_CRLF"}
  ELSE IF eolMode \in {SC_EOL_LF, SC_EOL_CR} THEN rxOptions \ {"NEWLINE_CRLF"}
  ELSE rxOptions

translateRegExpr(regExprStr, wholeWord, wordStart, eolMode, rxOptions) ==
  [str  |-> EolStep(WordBoundaries(WordWrap(regExprStr, wholeWord, wordStart)), eolMode),
   opts |-> EolOptions(eolMode, rxOptions)]

(***************************************************************************)
(* convertReplExpr: the replacement template with its escapes resolved.    *)
(* The walk carries the output built so far (out) and the highest index    *)
(* of replStr it has read (rd).                                            *)
(***************************************************************************)
\* What WideCharToMultiByte(CP_UTF8, 0, val, -1, buf, ARRAYSIZE(val), ...)
\* leaves in the zeroed buf, as pushed by lines 561-563: the first byte
\* always, then the bytes up to the next zero.  A code point below 0x80
\* fits the two-byte buffer (one byte and the terminator).  A larger one does
\* not: the call fails and the buffer is unspecified; enc chooses between
\* the buffer left untouched (zeros) and the first two bytes written.
EncodedBytes(val, enc) ==
  IF val < 128 THEN <<val>>
  ELSE IF enc = "untouched" THEN <<0>>
  ELSE IF val < 2048 THEN <<192 + (val \div 64), 128 + (val % 64)>>
  ELSE <<224 + (val \div 4096), 128 + ((val \div 64) % 64)>>

EncOutcomes == {"untouched", "partial"}

\* Lines 533-557: i is the index after the letter; the result is the index
\* after the hex digits consumed, the value decoded, whether a first digit
\* was found, and the highest index read.
HexDigits(replStr, i, bShort) ==
  LET Digits(h1, h2, h3, h4) ==
        IF h1 < 0 THEN [i |-> i, val |-> 0, found |-> FALSE, rd |-> i]
        ELSE IF h2 < 0 THEN [i |-> i + 1, val |-> h1, found |-> TRUE, rd |-> i + 1]
        ELSE IF bShort
          THEN [i |-> i + 2, val |-> h1 * 16 + h2, found |-> TRUE, rd |-> i + 1]
        ELSE IF h3 < 0
          THEN [i |-> i + 2, val |-> h1 * 16 + h2, found |-> TRUE, rd |-> i + 2]
        ELSE IF h4 < 0
          THEN [i |-> i + 3, val |-> (h1 * 16 + h2) * 16 + h3, found |-> TRUE,
                rd |-> i + 3]
        ELSE [i |-> i + 4, val |-> (((h1 * 16 + h2) * 16 + h3) * 16 + h4) % 65536,
              found |-> TRUE, rd |-> i + 3]
  IN  Digits(GetHexDigit(At(replStr, i)), GetHexDigit(At(replStr, i + 1)),
             GetHexDigit(At(replStr, i + 2)), GetHexDigit(At(replStr, i + 3)))

\* case 'x' / case 'u' (lines 524-571); i is the index of the letter ch.
\* The result's i is where the case leaves the loop index at its break: on
\* the first character it did not consume (the for statement's ++i then
\* steps once more).
HexEscape(replStr, i, ch, enc) ==
  LET Decoded(h) ==
        [i     |-> h.i,
         bytes |-> IF h.found /\ h.val /= 0 THEN EncodedBytes(h.val, enc) ELSE <<ch>>,
         rd    |-> h.rd]
  IN  Decoded(HexDigits(replStr, i + 1, ch = Chr("x")))

\* convertReplExpr without the legacy rewrite of lines 492-496.
LegacyMarkerMissing(ch) == <<>>

\* Lines 492-496: a backslash before 1..9 first emits the '$' marker.
LegacyMarker(ch) ==
  IF ch >= Chr("1") /\ ch <= Chr("9") THEN <<Chr("$")>> ELSE <<>>

\* The switch with a case '\\' that pushes a single backslash.
EscapeCaseOneBackslash(replStr, i, ch, enc) ==
  IF ch \in {Chr("a"), Chr("b"), Chr("f"), Chr("n"), Chr("r"), Chr("t"), Chr("v")}
    THEN [i |-> i, rd |-> i,
          bytes |-> <<CtrlChar[CHOOSE c \in DOMAIN CtrlChar : Chr(c) = ch]>>]
  ELSE IF ch = Chr("\\")
    THEN [i |-> i, rd |-> i, bytes |-> <<Chr("\\")>>]
  ELSE IF ch \in {Chr("x"), Chr("u")}
    THEN HexEscape(replStr, i, ch, enc)
  ELSE [i |-> i, rd |-> i, bytes |-> <<ch>>]

\* The switch of lines 497-576 for the character ch after a backslash, read
\* at index i.  Returns the bytes pushed and the loop index the case leaves.
EscapeCase(replStr, i, ch, enc) ==
  IF ch \in {Chr("a"), Chr("b"), Chr("f"), Chr("n"), Chr("r"), Chr("t"), Chr("v")}
    THEN [i |-> i, rd |-> i,
          bytes |-> <<CtrlChar[CHOOSE c \in DOMAIN CtrlChar : Chr(c) = ch]>>]
  ELSE IF ch = Chr("\\")
    THEN [i |-> i, rd |-> i, bytes |-> <<Chr("\\"), Chr("\\")>>]
  ELSE IF ch \in {Chr("x"), Chr("u")}
    THEN HexEscape(replStr, i, ch, enc)
  ELSE [i |-> i, rd |-> i, bytes |-> <<ch>>]

RECURSIVE convertReplLoop(_, _, _, _)
convertReplLoop(replStr, i, acc, enc) ==
  IF i >= Len(replStr) THEN acc
  ELSE IF At(replStr, i) /= Chr("\\")
    THEN convertReplLoop(replStr, i + 1,
                         [out |-> Append(acc.out, At(replStr, i)),
                          rd  |-> MaxOf(acc.rd, i)], enc)
  ELSE LET ch == At(replStr, i + 1)
           Escaped(e) ==
             convertReplLoop(replStr, e.i + 1,
                             [out |-> acc.out \o LegacyMarker(ch) \o e.bytes,
                              rd  |-> MaxOf(acc.rd, e.rd)], enc)
       IN  Escaped(EscapeCase(replStr, i + 1, ch, enc))

\* The expansion together with the highest index read.
convertReplRun(replStr, enc) ==
  convertReplLoop(replStr, 0, [out |-> <<>>, rd |-> -1], enc)

convertReplExpr(replStr, enc) == convertReplRun(replStr, enc).out

(***************************************************************************)
(* The document (Scintilla's Document): a byte buffer and its EOL mode.    *)
(***************************************************************************)
\* Document::MovePositionOutsideChar(pos, 1, false) in a single-byte
\* document: the position brought into [0, Length()].
MovePositionOutsideChar(buf, pos) ==
  IF pos <= 0 THEN 0 ELSE IF pos >= Len(buf) THEN Len(buf) ELSE pos

\* doc->RangePointer(position, len) read for len bytes
RangeText(buf, position, len) ==
  IF len <= 0 THEN <<>> ELSE Slice(buf, position, position + len)

(***************************************************************************)
(* The engine (onigmo.h).  A compiled pattern is the text and options it   *)
(* was compiled from.  The dialect modelled: literal bytes, '.', \w, \b,   *)
(* backslash-escaped literals and capture groups; anything else is outside *)
(* the model and the requests never use it.                                *)
(***************************************************************************)
ONIG_MISMATCH == -1
ONIG_REGION_NOTPOS == -1
ONIGERR_MEMORY == -5
ONIGERR_PARSER == -11

NullRegex == [null |-> TRUE, src |-> <<>>, opts |-> {}]

NoAtom == [t |-> "none", g |-> 0, c |-> 0]

Unsupported == {Chr("?"), Chr("$")}

RECURSIVE ParseRx(_, _, _, _, _)
ParseRx(text, i, open, ngroups, atoms) ==
  LET c == At(text, i)
      bad == [ok |-> FALSE, atoms |-> <<>>, ngroups |-> 0]
  IN  IF i >= Len(text)
        THEN [ok |-> open = <<>>, atoms |-> atoms, ngroups |-> ngroups]
      ELSE IF c = Chr("(")
        THEN ParseRx(text, i + 1, Append(open, ngroups + 1), ngroups + 1,
                     Append(atoms, [NoAtom EXCEPT !.t = "open", !.g = ngroups + 1]))
      ELSE IF c = Chr(")")
        THEN IF open = <<>> THEN bad
             ELSE ParseRx(text, i + 1, SubSeq(open, 1, Len(open) - 1), ngroups,
                          Append(atoms, [NoAtom EXCEPT !.t = "close",
                                                       !.g = open[Len(open)]]))
      ELSE IF c = Chr("\\")
        THEN IF i + 1 >= Len(text) THEN bad
             ELSE ParseRx(text, i + 2, open, ngroups,
                          Append(atoms,
                            IF At(text, i + 1) = Chr("b") THEN [NoAtom EXCEPT !.t = "wb"]
                            ELSE IF At(text, i + 1) = Chr("w")
                              THEN [NoAtom EXCEPT !.t = "word"]
                            ELSE [NoAtom EXCEPT !.t = "lit", !.c = At(text, i + 1)]))
      ELSE IF c = Chr(".")
        THEN ParseRx(text, i + 1, open, ngroups, Append(atoms, [NoAtom EXCEPT !.t = "any"]))
      ELSE IF c \in Unsupported THEN bad
      ELSE ParseRx(text, i + 1, open, ngroups,
                   Append(atoms, [NoAtom EXCEPT !.t = "lit", !.c = c]))

Parsed(text) == ParseRx(text, 0, <<>>, 0, <<>>)

\* onig_new: the error code (0: ONIG_NORMAL) and the handle stored through
\* the first argument, which is NULL after a failure.
onig_new(text, opts) ==
  IF Parsed(text).ok
  THEN [res |-> 0, reg |-> [null |-> FALSE, src |-> text, opts |-> opts]]
  ELSE [res |-> ONIGERR_PARSER, reg |-> NullRegex]

IsWordChar(c) ==
  \/ c >= Chr("a") /\ c <= Chr("z")
  \/ c >= Chr("A") /\ c <= Chr("Z")
  \/ c >= Chr("0") /\ c <= Chr("9")
  \/ c = Chr("_")

FoldCase(c) == IF c >= Chr("A") /\ c <= Chr("Z") THEN c + 32 ELSE c

WordAt(buf, p) == p >= 0 /\ p < Len(buf) /\ IsWordChar(At(buf, p))

\* Whether atom a matches at p, and the position after it.
AtomStep(a, buf, p, opts) ==
  LET ch == At(buf, p)
      one == p < Len(buf)
  IN  IF a.t = "lit"
        THEN [ok |-> one /\ (IF "IGNORECASE" \in opts
                             THEN FoldCase(ch) = FoldCase(a.c) ELSE ch = a.c),
              p |-> p + 1]
      ELSE IF a.t = "any"
        THEN [ok |-> one /\ (ch /= 10 \/ "MULTILINE" \in opts), p |-> p + 1]
      ELSE IF a.t = "word" THEN [ok |-> one /\ IsWordChar(ch), p |-> p + 1]
      ELSE IF a.t = "wb" THEN [ok |-> WordAt(buf, p - 1) /= WordAt(buf, p), p |-> p]
      ELSE [ok |-> TRUE, p |-> p]

RECURSIVE MatchAtoms(_, _, _, _, _, _, _)
MatchAtoms(atoms, k, buf, p, beg, end, opts) ==
  IF k > Len(atoms) THEN [ok |-> TRUE, beg |-> beg, end |-> [end EXCEPT ![1] = p]]
  ELSE LET a == atoms[k]
           Stepped(st) ==
             IF ~st.ok THEN [ok |-> FALSE, beg |-> beg, end |-> end]
             ELSE MatchAtoms(atoms, k + 1, buf, st.p,
                             IF a.t = "open" THEN [beg EXCEPT ![a.g + 1] = p] ELSE beg,
                             IF a.t = "close" THEN [end EXCEPT ![a.g + 1] = p] ELSE end,
                             opts)
       IN  Stepped(AtomStep(a, buf, p, opts))

\* The match of handle reg that starts at s: ok, and the group offsets
\* (index g + 1 holds group g).
MatchAt(reg, buf, s) ==
  LET Groups(atoms, none) ==
        MatchAtoms(atoms, 1, buf, s, [none EXCEPT ![1] = s], none, reg.opts)
      OfPattern(pr) ==
        Groups(pr.atoms, [g \in 1..(pr.ngroups + 1) |-> ONIG_REGION_NOTPOS])
  IN  OfPattern(Parsed(reg.src))

\* The lowest s in start..range at which reg matches, else ONIG_MISMATCH.
RECURSIVE FirstMatch(_, _, _, _)
FirstMatch(reg, buf, start, range) ==
  IF start > range \/ start > Len(buf) THEN ONIG_MISMATCH
  ELSE IF MatchAt(reg, buf, start).ok THEN start
  ELSE FirstMatch(reg, buf, start + 1, range)

\* OnigRegion
NullRegion == [state |-> "null", num_regs |-> 0, beg |-> <<>>, end |-> <<>>]

onig_region_init == NullRegion

\* onig_region_free(&r, 0): releases beg/end when allocated and leaves
\* num_regs and the (now dangling) pointers as they are.
onig_region_free(r) ==
  IF r.state = "live" THEN [r EXCEPT !.state = "freed"] ELSE r

\* onig_search(reg, str, end, start, range, region, options): the lowest
\* match start s with start <= s <= range, else ONIG_MISMATCH.  The region
\* is resized for the pattern and cleared on entry, and holds the groups of
\* the match found.  faulted: the call ends in an engine error instead.
onig_search(reg, buf, start, range, faulted) ==
  LET Cleared(n) ==
        [state |-> "live", num_regs |-> n,
         beg |-> [g \in 1..n |-> ONIG_REGION_NOTPOS],
         end |-> [g \in 1..n |-> ONIG_REGION_NOTPOS]]
      Hit(cleared, first, m) ==
        [result |-> first, region |-> [cleared EXCEPT !.beg = m.beg, !.end = m.end]]
      Result(cleared, first) ==
        IF faulted THEN [result |-> ONIGERR_MEMORY, region |-> cleared]
        ELSE IF first = ONIG_MISMATCH THEN [result |-> ONIG_MISMATCH, region |-> cleared]
        ELSE Hit(cleared, first, MatchAt(reg, buf, first))
  IN  Result(Cleared(Parsed(reg.src).ngroups + 1), FirstMatch(reg, buf, start, range))

(***************************************************************************)
(* The state of one OniguRegExEngine and of the document it searches.      *)
(***************************************************************************)
VARIABLES
  doc,            \* the document's bytes
  eolMode,        \* doc->eolMode
  m_RegExprStrg,  \* the cached pattern text
  m_CmplOptions,  \* the cached compile options
  m_RegExpr,      \* the compiled pattern handle, NullRegex when none
  m_Region,       \* the engine's match region
  m_MatchPos,     \* offset of the match held, ONIG_MISMATCH when none
  m_MatchLen,
  m_SubstBuffer,
  call            \* the most recent call: its inputs and what it returned

vars == <<doc, eolMode, m_RegExprStrg, m_CmplOptions, m_RegExpr, m_Region,
          m_MatchPos, m_MatchLen, m_SubstBuffer, call>>

\* What the caller sees of a call, and what the call did on the way;
\* allocated counts the handles onig_new returned in the call and released
\* those it passed to onig_free; lastFind is the outcome of the most recent
\* FindText.
NoCall ==
  [op |-> "none", outcome |-> "none", ret |-> 0, lengthSet |-> FALSE, length |-> 0,
   findprevious |-> FALSE, rangeBeg |-> 0, rangeEnd |-> 0,
   word |-> FALSE, wordStart |-> FALSE,
   sRegExprStrg |-> <<>>, onigmoOptions |-> {}, sameAsCached |-> FALSE,
   compiled |-> FALSE, allocated |-> 0, released |-> 0, searches |-> <<>>,
   text |-> <<>>, enc |-> "", junk |-> "", raw |-> <<>>, rd |-> -1,
   readRegion |-> "no",
   lastFind |-> "none"]

(***************************************************************************)
(* FindText                                                                *)
(***************************************************************************)
\* Lines 224-244: the option word built for this request.
FindOptions(caseSensitive, searchFlags, rangeBeg, rangeEnd, docLen) ==
  LET fixed == ((({} \ {"EXTEND"})
                 \cup (IF "SCFIND_DOT_MATCH_ALL" \in searchFlags THEN {"MULTILINE"} ELSE {}))
                \cup {"NEGATE_SINGLELINE", "CAPTURE_GROUP"})
  IN  fixed \cup (IF caseSensitive THEN {} ELSE {"IGNORECASE"})
            \cup (IF rangeBeg /= 0 THEN {"NOTBOL"} ELSE {})
            \cup (IF rangeEnd /= docLen THEN {"NOTEOL"} ELSE {})

\* A cache that is never used.
bReCompileAlways(reg, cmplOptions, regExprStrg, onigmoOptions, sRegExprStrg) == TRUE

\* A cache that compares the options only.
bReCompileIgnoresText(reg, cmplOptions, regExprStrg, onigmoOptions, sRegExprStrg) ==
  reg.null \/ cmplOptions /= onigmoOptions

\* Line 248
bReCompile(reg, cmplOptions, regExprStrg, onigmoOptions, sRegExprStrg) ==
  reg.null \/ cmplOptions /= onigmoOptions \/ regExprStrg /= sRegExprStrg

\* A scan that steps one byte past the start of each hit.
NextRangeBegOverlapping(matchPos, matchLen) == matchPos + 1

\* A scan that resumes one byte beyond the end of each hit.
NextRangeBegPastEnd(matchPos, matchLen) == matchPos + matchLen + 1

\* Line 307: where the next search of the backward scan starts.
NextRangeBeg(matchPos, matchLen) == matchPos + MaxOf(1, matchLen)

SearchRecord(reg, start, range, result) ==
  [reg |-> reg, start |-> start, range |-> range, result |-> result]

\* Lines 302-315.  st: the result and region of the last search, the lower
\* bound it used, m_MatchPos / m_MatchLen (pos, len) and the searches made.
RECURSIVE BackwardScan(_, _, _, _, _)
BackwardScan(reg, buf, st, rangeEnd, faultAt) ==
  IF st.result >= 0 /\ st.rangeBeg <= rangeEnd
  THEN LET pos == st.result
           len == st.region.end[1] - st.result
           Again(nb, r) ==
             BackwardScan(reg, buf,
                          [fault |-> FALSE, result |-> r.result, region |-> r.region,
                           rangeBeg |-> nb, pos |-> pos, len |-> len,
                           searches |-> Append(st.searches,
                                               SearchRecord(reg, nb, rangeEnd, r.result))],
                          rangeEnd, faultAt)
           From(nb) ==
             Again(nb, onig_search(reg, buf, nb, rangeEnd, faultAt = Len(st.searches) + 1))
       IN  From(NextRangeBeg(pos, len))
  ELSE st

\* Lines 285-321, once a compiled pattern is held: the search proper, from
\* the match members (pos, len) as lines 275-276 left them.
\* fault: the return at line 295.
SearchRange(reg, buf, findprevious, rangeBeg, rangeEnd, pos, len, faultAt) ==
  LET First(r0) ==
        [fault |-> FALSE, result |-> r0.result, region |-> r0.region,
         rangeBeg |-> rangeBeg, pos |-> pos, len |-> len,
         searches |-> <<SearchRecord(reg, rangeBeg, rangeEnd, r0.result)>>]
      Rest(st0) ==
        IF st0.result < ONIG_MISMATCH
          THEN [st0 EXCEPT !.fault = TRUE]
        ELSE IF findprevious
          THEN BackwardScan(reg, buf, st0, rangeEnd, faultAt)
        ELSE IF st0.result >= 0 /\ rangeBeg <= rangeEnd
          THEN [st0 EXCEPT !.pos = st0.result, !.len = st0.region.end[1] - st0.result]
        ELSE st0
      Scan(r0) == Rest(First(r0))
  IN  Scan(onig_search(reg, buf, rangeBeg, rangeEnd, faultAt = 1))

\* Lines 275-276
ResetMatch(self) == [self EXCEPT !.m_MatchPos = ONIG_MISMATCH, !.m_MatchLen = 0]

\* Lines 250-273 when bReCompile: the members after the attempt and the
\* engine's code.  The handle is overwritten by onig_new.
ReCompile(self, sRegExprStrg, onigmoOptions) ==
  LET Tried(new) ==
        [self EXCEPT !.m_RegExprStrg = sRegExprStrg,
                     !.m_CmplOptions = onigmoOptions,
                     !.m_Region = onig_region_free(self.m_Region),
                     !.m_RegExpr = new.reg]
      Outcome(res, tried) ==
        [res  |-> res,
         self |-> IF res /= 0 THEN tried
                  ELSE [tried EXCEPT !.m_Region = onig_region_init]]
      Stored(new) == Outcome(new.res, Tried(new))
  IN  Stored(onig_new(sRegExprStrg, onigmoOptions))

\* The whole of FindText on the instance `self` (a record of the members):
\* the members afterwards, the return value, *length, and the trace.
FindText(self, buf, eol, minPos0, maxPos0, pattern, caseSensitive, word, wordStart, searchFlags, faultAt) ==
  LET docLen == Len(buf)
      minPos == MovePositionOutsideChar(buf, minPos0)
      maxPos == MovePositionOutsideChar(buf, maxPos0)
      findprevious == minPos > maxPos
      rangeBeg == IF findprevious THEN maxPos ELSE minPos
      rangeEnd == IF findprevious THEN minPos ELSE maxPos
      Base(tr, recompile) ==
        [NoCall EXCEPT !.op = "Find", !.findprevious = findprevious,
                       !.rangeBeg = rangeBeg, !.rangeEnd = rangeEnd,
                       !.word = word, !.wordStart = wordStart,
                       !.sRegExprStrg = tr.str, !.onigmoOptions = tr.opts,
                       !.sameAsCached = (self.m_RegExprStrg = tr.str
                                         /\ self.m_CmplOptions = tr.opts),
                       !.compiled = recompile]
      \* lines 285-325
      Searched(ready, sr, base) ==
        IF sr.fault
          THEN [self |-> [ready EXCEPT !.m_Region = sr.region],
                call |-> [base EXCEPT !.outcome = "EngineFault", !.ret = -3,
                                      !.searches = sr.searches]]
        ELSE [self |-> [ready EXCEPT !.m_MatchPos = sr.pos, !.m_MatchLen = sr.len,
                                     !.m_Region = sr.region],
              call |-> [base EXCEPT !.outcome = IF sr.pos >= 0 THEN "Match"
                                                ELSE "NoMatch",
                                    !.ret = sr.pos, !.lengthSet = TRUE,
                                    !.length = sr.len, !.searches = sr.searches]]
      \* lines 275-276, then the search
      Ready(ready, base) ==
        Searched(ready,
                 SearchRange(ready.m_RegExpr, buf, findprevious, rangeBeg, rangeEnd,
                             ready.m_MatchPos, ready.m_MatchLen, faultAt),
                 base)
      \* lines 263-266: the return before the reset
      Compiled(cmp, base) ==
        IF cmp.res /= 0
          THEN [self |-> cmp.self,
                call |-> [base EXCEPT !.outcome = "InvalidPattern", !.ret = -2]]
        ELSE Ready(ResetMatch(cmp.self),
                   [base EXCEPT !.allocated = IF base.compiled THEN 1 ELSE 0])
      \* lines 248-250
      Decided(tr, recompile) ==
        Compiled(IF recompile THEN ReCompile(self, tr.str, tr.opts)
                 ELSE [res |-> 0, self |-> self],
                 Base(tr, recompile))
      Translated(tr) ==
        Decided(tr, bReCompile(self.m_RegExpr, self.m_CmplOptions, self.m_RegExprStrg,
                               tr.opts, tr.str))
  IN  IF Len(pattern) = 0
        THEN [self |-> self,
              call |-> [NoCall EXCEPT !.op = "Find", !.outcome = "EmptyPattern",
                                      !.ret = -1, !.lengthSet = TRUE, !.length = 0]]
      ELSE Translated(translateRegExpr(pattern, word, wordStart, eol,
                                       FindOptions(caseSensitive, searchFlags, rangeBeg,
                                                   rangeEnd, docLen)))

Destroyed == call.op = "Destroy"

Self ==
  [m_RegExprStrg |-> m_RegExprStrg, m_CmplOptions |-> m_CmplOptions,
   m_RegExpr |-> m_RegExpr, m_Region |-> m_Region, m_MatchPos |-> m_MatchPos,
   m_MatchLen |-> m_MatchLen, m_SubstBuffer |-> m_SubstBuffer]

Install(r) ==
  /\ ~Destroyed
  /\ m_RegExprStrg' = r.self.m_RegExprStrg
  /\ m_CmplOptions' = r.self.m_CmplOptions
  /\ m_RegExpr' = r.self.m_RegExpr
  /\ m_Region' = r.self.m_Region
  /\ m_MatchPos' = r.self.m_MatchPos
  /\ m_MatchLen' = r.self.m_MatchLen
  /\ m_SubstBuffer' = r.self.m_SubstBuffer
  /\ call' = [r.call EXCEPT !.lastFind =
                 IF r.call.op = "Find" THEN r.call.outcome ELSE call.lastFind]
  /\ UNCHANGED <<doc, eolMode>>

Find(minPos, maxPos, pattern, caseSensitive, word, wordStart, searchFlags, faultAt) ==
  \E r \in {FindText(Self, doc, eolMode, minPos, maxPos, pattern, caseSensitive, word,
                     wordStart, searchFlags, faultAt)} : Install(r)

(***************************************************************************)
(* SubstituteByPosition                                                    *)
(***************************************************************************)
\* Lines 353-356: the bytes of group grpNum, read through the region.  A
\* region released by onig_region_free keeps num_regs and dangling beg/end:
\* reading them is a use after free, and junk chooses what it yields, the
\* old offsets ("stale") or a block since reused ("reused", no text).
GroupText(region, buf, grpNum, junk) ==
  LET rBeg == region.beg[grpNum + 1]
      len  == region.end[grpNum + 1] - rBeg
  IN  IF region.state = "freed" /\ junk = "reused" THEN <<>>
      ELSE RangeText(buf, rBeg, len)

JunkOutcomes == {"stale", "reused"}

\* A builder that consumes the digit only of a group in range.
BackrefTokenKeepsDigit(region, buf, grpNum, junk) ==
  [bytes |-> IF grpNum < region.num_regs THEN GroupText(region, buf, grpNum, junk)
             ELSE <<>>,
   skip  |-> IF grpNum < region.num_regs THEN 1 ELSE 0]

\* Lines 349-358: a marker followed by the digit of group grpNum.  The
\* bytes appended and how far the token moves j beyond the marker.
BackrefToken(region, buf, grpNum, junk) ==
  [bytes |-> IF grpNum < region.num_regs THEN GroupText(region, buf, grpNum, junk)
             ELSE <<>>,
   skip  |-> 1]

\* Lines 344-371.  acc: the buffer built and whether the region was read.
RECURSIVE SubstLoop(_, _, _, _, _, _)
SubstLoop(rawReplStrg, j, acc, region, buf, junk) ==
  LET c == At(rawReplStrg, j)
      n == At(rawReplStrg, j + 1)
      Group(tok) ==
        SubstLoop(rawReplStrg, j + 1 + tok.skip,
                  [out |-> acc.out \o tok.bytes,
                   read |-> acc.read \/ (n - Chr("0")) < region.num_regs],
                  region, buf, junk)
  IN  IF j >= Len(rawReplStrg) THEN acc
      ELSE IF c = Chr("$") \/ c = Chr("\\")
        THEN IF n >= Chr("0") /\ n <= Chr("9")
               THEN Group(BackrefToken(region, buf, n - Chr("0"), junk))
             ELSE IF c = Chr("\\")
               THEN SubstLoop(rawReplStrg, j + 2,
                              [acc EXCEPT !.out = Append(@, Chr("\\"))], region, buf, junk)
             ELSE SubstLoop(rawReplStrg, j + 1, [acc EXCEPT !.out = Append(@, c)],
                            region, buf, junk)
      ELSE SubstLoop(rawReplStrg, j + 1, [acc EXCEPT !.out = Append(@, c)],
                     region, buf, junk)

\* The replacement built from an expanded template on the state `self`.
SubstBuild(self, buf, rawReplStrg, junk) ==
  SubstLoop(rawReplStrg, 0, [out |-> <<>>, read |-> FALSE], self.m_Region, buf, junk)

\* A builder without the guard of line 333.
HoldsMatchUnchecked(self) == TRUE

\* Line 333, negated: a match is held.
HoldsMatch(self) == self.m_MatchPos >= 0

\* The whole call.  ret: "null" (nullptr, *length = -1) or "buffer"
\* (m_SubstBuffer.c_str(), *length = its length).
SubstituteByPosition(self, buf, text, junk, enc) ==
  LET base == [NoCall EXCEPT !.op = "Substitute", !.text = text, !.enc = enc,
                             !.lengthSet = TRUE]
      Built(run, b) ==
        [self |-> [self EXCEPT !.m_SubstBuffer = b.out],
         call |-> [base EXCEPT !.outcome = "Replaced", !.ret = 0,
                               !.length = Len(b.out), !.raw = run.out, !.rd = run.rd,
                               !.readRegion = IF b.read THEN self.m_Region.state
                                              ELSE "no",
                               !.junk = IF b.read THEN junk ELSE ""]]
      Expanded(run) == Built(run, SubstBuild(self, buf, run.out, junk))
  IN  IF ~HoldsMatch(self)
        THEN [self |-> self,
              call |-> [base EXCEPT !.outcome = "NoActiveMatch", !.ret = -1,
                                    !.length = -1]]
      ELSE Expanded(convertReplRun(text, enc))

Substitute(text, junk, enc) ==
  \E r \in {SubstituteByPosition(Self, doc, text, junk, enc)} : Install(r)

(***************************************************************************)
(* Requests.                                                               *)
(***************************************************************************)
MaxFault == 2       \* the search call (1, 2, ...) that faults; 0: none does

DocMain == Str(<<"a", "b", "a">>)

PatLit == Str(<<"a">>)
PatGrp == Str(<<"(", "a", ")", "b">>)
PatNil == Str(<<"(", ")">>)
PatBad == Str(<<"(">>)

Patterns == {<<>>, PatLit, PatGrp, PatBad}

\* The flags of a request and the search call that faults.
DefaultFlags ==
  [caseSensitive |-> TRUE, word |-> FALSE, wordStart |-> FALSE, searchFlags |-> {}]

WordFlags ==
  [caseSensitive |-> FALSE, word |-> FALSE, wordStart |-> TRUE,
   searchFlags |-> {"SCFIND_DOT_MATCH_ALL"}]

Modes ==
  {[flags |-> DefaultFlags, faultAt |-> k] : k \in 0..MaxFault}
    \cup {[flags |-> WordFlags, faultAt |-> 0]}

SubstTemplates ==
  {Str(<<"$", "0">>), Str(<<"$", "0", "-", "$", "0">>),
   Str(<<"\\", "1">>), Str(<<"$", "1">>), Str(<<"x", "$", "9", "y">>), Str(<<"x", "y">>),
   Str(<<"\\", "\\", "1">>)}

\* The ranges <<minPos, maxPos>> a request may name: forward ones and,
\* with minPos > maxPos, backward ones.
Ranges ==
  {<<0, Len(doc)>>, <<1, Len(doc)>>, <<0, 0>>, <<Len(doc), 0>>, <<Len(doc), 1>>}

Junk == IF m_Region.state = "freed" THEN JunkOutcomes ELSE {"stale"}

Init ==
  /\ doc = DocMain
  /\ eolMode = SC_EOL_CRLF
  /\ m_RegExprStrg = <<>>
  /\ m_CmplOptions = {}
  /\ m_RegExpr = NullRegex
  /\ m_Region = onig_region_init
  /\ m_MatchPos = ONIG_MISMATCH
  /\ m_MatchLen = 0
  /\ m_SubstBuffer = <<>>
  /\ call = NoCall

DoFind ==
  \E range \in Ranges, pattern \in Patterns, m \in Modes :
       Find(range[1], range[2], pattern, m.flags.caseSensitive, m.flags.word,
            m.flags.wordStart, m.flags.searchFlags, m.faultAt)

DoSubstitute ==
  \E text \in SubstTemplates, junk \in Junk :
       Substitute(text, junk, "untouched")

Next == DoFind \/ DoSubstitute

Spec == Init /\ [][Next]_vars

(***************************************************************************)
(* Properties of FindText and SubstituteByPosition under Spec.             *)
(***************************************************************************)
Tmpl0 == Str(<<"$", "0">>)
Tmpl00 == Str(<<"$", "0", "-", "$", "0">>)
TmplLegacy1 == Str(<<"\\", "1">>)
TmplOut == Str(<<"x", "$", "9", "y">>)

Digit(d) == Chr("0") + d

\* The bytes group g captured in the match of the held pattern at the
\* reported offset: nothing for a group the pattern does not have.
Captured(g) ==
  LET m == MatchAt(m_RegExpr, doc, m_MatchPos)
  IN  IF g + 1 \in DOMAIN m.beg THEN Slice(doc, m.beg[g + 1], m.end[g + 1]) ELSE <<>>

\* C1: after a Find that reported a match (offset m_MatchPos, length
\* m_MatchLen), forward or backward, Substitute resolves $g against the bytes
\* group g captured in that match: "$0" gives the matched bytes, "$0-$0" the
\* matched bytes, a hyphen and the matched bytes, "$1" the bytes of group 1.
C1_SubstituteUsesReportedMatch ==
  (call.op = "Substitute" /\ call.lastFind = "Match") =>
     /\ call.outcome = "Replaced"
     /\ call.text = Tmpl0 =>
          m_SubstBuffer = Slice(doc, m_MatchPos, m_MatchPos + m_MatchLen)
     /\ call.text = Tmpl00 =>
          m_SubstBuffer = Slice(doc, m_MatchPos, m_MatchPos + m_MatchLen)
                            \o <<Chr("-")>>
                            \o Slice(doc, m_MatchPos, m_MatchPos + m_MatchLen)
     /\ call.text = Str(<<"$", "1">>) => m_SubstBuffer = Captured(1)

\* C3: a Substitute on a fresh instance, or after a most recent Find that
\* reported NoMatch, returns NoActiveMatch (nullptr, *length = -1) without
\* expanding or building anything; a Find that reports NoMatch leaves
\* m_MatchPos at the mismatch sentinel.
C3_NoActiveMatchAfterNoMatch ==
  /\ (call.op = "Substitute" /\ call.lastFind \in {"none", "NoMatch"}) =>
       /\ call.outcome = "NoActiveMatch"
       /\ call.ret = -1 /\ call.lengthSet /\ call.length = -1
       /\ call.raw = <<>> /\ call.readRegion = "no"
  /\ (call.op = "Find" /\ call.outcome = "NoMatch") =>
       /\ call.ret = -1
       /\ m_MatchPos = ONIG_MISMATCH

\* C3 witness: a Substitute refused after a NoMatch although an earlier
\* Find had succeeded (its replacement is still in m_SubstBuffer).
C3_Witness ==
  /\ call.op = "Substitute" /\ call.lastFind = "NoMatch"
  /\ call.outcome = "NoActiveMatch"
  /\ m_SubstBuffer /= <<>>

\* C4: after a most recent Find that ended InvalidPattern, EngineFault or
\* with the empty pattern rejected, Substitute returns NoActiveMatch and
\* reads no region, released or left from an earlier match.
C4_NoActiveMatchAfterFailedFind ==
  (call.op = "Substitute"
     /\ call.lastFind \in {"InvalidPattern", "EngineFault", "EmptyPattern"}) =>
       /\ call.outcome = "NoActiveMatch"
       /\ call.readRegion = "no"

\* C7: a Find during which any engine search call returned an error code
\* below ONIG_MISMATCH reports EngineFault, never NoMatch or a match.
C7_SearchErrorIsEngineFault ==
  (call.op = "Find"
     /\ \E i \in 1..Len(call.searches) : call.searches[i].result < ONIG_MISMATCH) =>
       /\ call.outcome = "EngineFault"
       /\ call.ret = -3

\* C8: a Find whose translated pattern the engine rejects reports
\* InvalidPattern and has invoked the engine compiler, also when the request
\* repeats the cached text and options; and every engine search runs on the
\* handle of a successful compile of the cached text and options.
C8_CompileFailureNotCached ==
  (call.op = "Find" /\ call.outcome /= "EmptyPattern") =>
     /\ onig_new(call.sRegExprStrg, m_CmplOptions).res /= 0 =>
          /\ call.outcome = "InvalidPattern" /\ call.ret = -2
          /\ call.compiled
          /\ call.searches = <<>>
     /\ \A i \in 1..Len(call.searches) :
          /\ ~call.searches[i].reg.null
          /\ onig_new(m_RegExprStrg, m_CmplOptions).res = 0
          /\ call.searches[i].reg = onig_new(m_RegExprStrg, m_CmplOptions).reg
          /\ m_RegExprStrg = call.sRegExprStrg

\* C8 witness: the identical bad request again, compiled again, refused
\* again.
C8_Witness ==
  /\ call.op = "Find" /\ call.outcome = "InvalidPattern"
  /\ call.sameAsCached /\ call.compiled /\ m_RegExpr.null

SubstOut(text, junk) ==
  SubstituteByPosition(Self, doc, text, junk, "untouched").self.m_SubstBuffer

HasBackslash(text) == \E i \in 1..Len(text) : text[i] = Chr("\\")

\* C9: on every held match the legacy template \d (d in 1..9) gives the
\* replacement the template $d gives (the region read the same way by
\* both), because \d expands to $d; and a template without a backslash
\* expands to itself.
C9_LegacyBackrefIsCanonical ==
  /\ HoldsMatch(Self) =>
       \A d \in 1..9, junk \in Junk :
         /\ convertReplExpr(<<Chr("\\"), Digit(d)>>, "untouched") = <<Chr("$"), Digit(d)>>
         /\ SubstOut(<<Chr("\\"), Digit(d)>>, junk) = SubstOut(<<Chr("$"), Digit(d)>>, junk)
  /\ (call.op = "Substitute" /\ call.outcome = "Replaced" /\ call.text = TmplLegacy1) =>
       /\ call.raw = Str(<<"$", "1">>)
       /\ m_SubstBuffer = SubstOut(Str(<<"$", "1">>), call.junk)
  /\ \A text \in SubstTemplates :
       ~HasBackslash(text) => convertReplExpr(text, "untouched") = text

\* C9 witness: \1 substituted on a match whose group 1 captured text.
C9_Witness ==
  /\ call.op = "Substitute" /\ call.outcome = "Replaced"
  /\ call.text = TmplLegacy1 /\ call.lastFind = "Match"
  /\ call.readRegion = "live"
  /\ m_SubstBuffer /= <<>>

Pres == {<<>>, Str(<<"x">>)}
Posts == {<<>>, Str(<<"y">>), Str(<<"1">>), Str(<<"$", "0">>)}

\* C10: with a match held by the compiled pattern, a token $d whose group
\* number is not below the pattern's group count emits nothing, is consumed
\* with its digit, and leaves the operation a success: the replacement is
\* that of the template without the token.
C10_OutOfRangeBackrefIsEmpty ==
  /\ (call.lastFind = "Match" /\ HoldsMatch(Self)) =>
       /\ m_Region.num_regs = Parsed(m_RegExpr.src).ngroups + 1
       /\ \A d \in 0..9, pre \in Pres, post \in Posts :
            d >= m_Region.num_regs =>
              LET r == SubstituteByPosition(Self, doc,
                                            pre \o <<Chr("$"), Digit(d)>> \o post,
                                            "stale", "untouched")
              IN  /\ r.call.outcome = "Replaced"
                  /\ r.self.m_SubstBuffer = SubstOut(pre \o post, "stale")
                  /\ r.call.length = Len(SubstOut(pre \o post, "stale"))
  /\ (call.op = "Substitute" /\ call.lastFind = "Match" /\ call.text = TmplOut) =>
       /\ call.outcome = "Replaced"
       /\ m_SubstBuffer = Str(<<"x", "y">>)

\* C10 witness: x$9y substituted on a held match.
C10_Witness ==
  /\ call.op = "Substitute" /\ call.lastFind = "Match" /\ call.text = TmplOut
  /\ call.outcome = "Replaced" /\ m_SubstBuffer = Str(<<"x", "y">>)

TmplEsc1 == Str(<<"\\", "\\", "1">>)

EscPres == Pres \cup {Str(<<"$">>), Str(<<"\\", "\\">>)}

\* C11: on every held match, the escaped backslash (two backslashes) of a
\* template contributes exactly one backslash to the replacement, and a
\* digit d after it contributes the digit itself: the replacement of
\* pre \\ d post is that of pre, a backslash, the digit d and that of post,
\* and no group is read for it.
C11_EscapedBackslashIsLiteral ==
  /\ (call.lastFind = "Match" /\ HoldsMatch(Self)) =>
       \A pre \in EscPres, post \in Posts :
         /\ SubstOut(pre \o <<Chr("\\"), Chr("\\")>> \o post, "stale")
              = SubstOut(pre, "stale") \o <<Chr("\\")>> \o SubstOut(post, "stale")
         /\ \A d \in 0..9 :
              SubstOut(pre \o <<Chr("\\"), Chr("\\"), Digit(d)>> \o post, "stale")
                = SubstOut(pre, "stale") \o <<Chr("\\"), Digit(d)>>
                    \o SubstOut(post, "stale")
  /\ (call.op = "Substitute" /\ call.outcome = "Replaced" /\ call.text = TmplEsc1) =>
       /\ m_SubstBuffer = Str(<<"\\", "1">>)
       /\ call.readRegion = "no"

\* C11 witness: \\1 substituted on a match whose group 1 captured text,
\* and the replacement is a backslash and the digit.
C11_Witness ==
  /\ call.op = "Substitute" /\ call.outcome = "Replaced" /\ call.text = TmplEsc1
  /\ call.lastFind = "Match" /\ Captured(1) /= <<>>
  /\ m_SubstBuffer = Str(<<"\\", "1">>)

\* C13: a Find that ends InvalidPattern (the engine compiler failed) returns
\* -2 and leaves the cached pattern text and the cached compile options as
\* they were before the call.
C13_FailedCompileKeepsCache ==
  [][(call'.op = "Find" /\ call'.outcome = "InvalidPattern") =>
       /\ call'.ret = -2
       /\ m_RegExprStrg' = m_RegExprStrg
       /\ m_CmplOptions' = m_CmplOptions]_vars

\* C17: a Find of a non-empty pattern invokes the engine compiler (and then
\* holds what onig_new returned for this request's text and options) if and
\* only if, before the call, no handle was held, or the cached options
\* differed from the options computed for the request, or the cached text
\* differed from the translated pattern; every Find that does not compile
\* leaves the handle, the cached text and the cached options as they were.
C17_CompilesIffCacheMiss ==
  [][call'.op = "Find" =>
       /\ call'.outcome /= "EmptyPattern" =>
            /\ call'.compiled <=> \/ m_RegExpr.null
                                  \/ m_CmplOptions /= call'.onigmoOptions
                                  \/ m_RegExprStrg /= call'.sRegExprStrg
            /\ call'.compiled =>
                 m_RegExpr' = onig_new(call'.sRegExprStrg, call'.onigmoOptions).reg
       /\ ~call'.compiled =>
            /\ m_RegExpr' = m_RegExpr
            /\ m_RegExprStrg' = m_RegExprStrg
            /\ m_CmplOptions' = m_CmplOptions]_vars

\* C17 witness: a Find that found the handle, the text and the options of
\* its request cached, searched with that handle and matched.
C17_Witness ==
  /\ call.op = "Find" /\ ~call.compiled /\ call.sameAsCached
  /\ ~m_RegExpr.null /\ call.outcome = "Match"
  /\ call.searches[1].reg = m_RegExpr

(***************************************************************************)
(* ExpandSpec: convertReplExpr applied to every template of a bounded set. *)
(***************************************************************************)
MaxTmplLen == 5

TmplAlphabet == {Chr("\\"), Chr("x"), Chr("u"), Chr("4"), Chr("1"), Chr("z")}

RECURSIVE SeqsUpTo(_, _)
SeqsUpTo(S, n) ==
  IF n = 0 THEN {<<>>}
  ELSE LET shorter == SeqsUpTo(S, n - 1)
       IN  shorter \cup {Append(t, c) : t \in {u \in shorter : Len(u) = n - 1}, c \in S}

TmplAB == Str(<<"\\", "x", "4", "1", "\\", "x", "4", "2">>)

Templates == SeqsUpTo(TmplAlphabet, MaxTmplLen) \cup {TmplAB}

FreshInstance ==
  /\ m_RegExprStrg = <<>>
  /\ m_CmplOptions = {}
  /\ m_RegExpr = NullRegex
  /\ m_Region = onig_region_init
  /\ m_MatchPos = ONIG_MISMATCH
  /\ m_MatchLen = 0
  /\ m_SubstBuffer = <<>>

InitExpand ==
  /\ doc = <<>>
  /\ eolMode = SC_EOL_CRLF
  /\ FreshInstance
  /\ \E text \in Templates : call = [NoCall EXCEPT !.op = "template", !.text = text]

Expand ==
  /\ call.op = "template"
  /\ \E enc \in EncOutcomes :
       \E run \in {convertReplRun(call.text, enc)} :
         call' = [call EXCEPT !.op = "expand", !.enc = enc, !.raw = run.out,
                              !.rd = run.rd]
  /\ UNCHANGED <<doc, eolMode, m_RegExprStrg, m_CmplOptions, m_RegExpr, m_Region,
                 m_MatchPos, m_MatchLen, m_SubstBuffer>>

ExpandSpec == InitExpand /\ [][Expand]_vars

\* The UTF-8 bytes of a 16-bit code point.
UTF8(val) ==
  IF val < 128 THEN <<val>>
  ELSE IF val < 2048 THEN <<192 + (val \div 64), 128 + (val % 64)>>
  ELSE <<224 + (val \div 4096), 128 + ((val \div 64) % 64), 128 + (val % 64)>>

IsHex(ch) == GetHexDigit(ch) >= 0

\* The longest run of hex digits at the head of text, at most max long.
RECURSIVE HexRun(_, _)
HexRun(text, max) ==
  IF max = 0 \/ text = <<>> \/ ~IsHex(text[1]) THEN <<>>
  ELSE <<text[1]>> \o HexRun(Tail(text), max - 1)

RECURSIVE HexValue(_)
HexValue(digits) ==
  IF digits = <<>> THEN 0
  ELSE HexValue(SubSeq(digits, 1, Len(digits) - 1)) * 16
         + GetHexDigit(digits[Len(digits)])

\* C5: \x with 1-2 hex digits (\u with 1-4) decodes to the encoded code
\* point and consumes the backslash, the letter and those digits only, so
\* the rest of the template is expanded as usual; with no hex digit the
\* letter alone is emitted and the rest is expanded as usual.  The template
\* \x41\x42 expands to "AB".
C5_HexEscapeConsumesItsDigits ==
  call.op = "expand" =>
    /\ call.text = TmplAB => call.raw = Str(<<"A", "B">>)
    /\ (Len(call.text) >= 2 /\ call.text[1] = Chr("\\")
          /\ call.text[2] \in {Chr("x"), Chr("u")}) =>
         LET digits == HexRun(SubSeq(call.text, 3, Len(call.text)),
                              IF call.text[2] = Chr("x") THEN 2 ELSE 4)
             rest == SubSeq(call.text, 3 + Len(digits), Len(call.text))
         IN  /\ (digits /= <<>> /\ HexValue(digits) /= 0) =>
                  call.raw = UTF8(HexValue(digits)) \o convertReplExpr(rest, call.enc)
             /\ digits = <<>> =>
                  call.raw = <<call.text[2]>> \o convertReplExpr(rest, call.enc)

\* The number of backslashes that end text.
RECURSIVE TrailingBackslashes(_)
TrailingBackslashes(text) ==
  IF text = <<>> \/ text[Len(text)] /= Chr("\\") THEN 0
  ELSE 1 + TrailingBackslashes(SubSeq(text, 1, Len(text) - 1))

\* C6: for a template that ends in an unpaired backslash, the expansion
\* reads no index beyond the last character, and is the expansion of the
\* template without that backslash: the dangling escape adds nothing.
C6_DanglingEscapeAddsNothing ==
  (call.op = "expand" /\ TrailingBackslashes(call.text) % 2 = 1) =>
     /\ call.rd < Len(call.text)
     /\ call.raw = convertReplExpr(SubSeq(call.text, 1, Len(call.text) - 1), call.enc)

(***************************************************************************)
(* SearchSpec: FindText over every range of short documents, and over the  *)
(* scenario document, with an engine that does not fault.                  *)
(***************************************************************************)
MaxDocLen == 3

DocFoo ==
  Str(<<"x", "x", " ", "f", "o", "o", " ", "f", "o", "o", " ", "y", "y">>)

PatFoo == Str(<<"f", "o", "o">>)
PatA == Str(<<"a">>)
PatAA == Str(<<"a", "a">>)

SearchDocs == SeqsUpTo({Chr("a"), Chr("b")}, MaxDocLen) \cup {DocFoo}

\* The patterns asked of a document, and the range ends (one of them past
\* the end of a short document).
SearchPatterns == IF doc = DocFoo THEN {PatFoo} ELSE {PatA, PatAA, PatNil}

SearchPositions ==
  IF doc = DocFoo THEN {0, 5, 8, Len(doc)} ELSE 0..(Len(doc) + 1)

InitSearch ==
  /\ doc \in SearchDocs
  /\ eolMode = SC_EOL_CRLF
  /\ FreshInstance
  /\ call = NoCall

FindInRange ==
  \E minPos \in SearchPositions, maxPos \in SearchPositions, pattern \in SearchPatterns :
       Find(minPos, maxPos, pattern, TRUE, FALSE, FALSE, {}, 0)

SearchSpec == InitSearch /\ [][FindInRange]_vars

\* The starts in lo..hi at which the held pattern matches, and the length
\* of the match at s.
MatchStarts(lo, hi) == {s \in lo..hi : MatchAt(m_RegExpr, doc, s).ok}

MatchLength(s) == MatchAt(m_RegExpr, doc, s).end[1] - s

Lowest(S) == CHOOSE s \in S : \A t \in S : s <= t
Highest(S) == CHOOSE s \in S : \A t \in S : s >= t

\* The hits of the left-to-right scan of lo..hi that resumes after each hit
\* (one byte on after an empty one).
RECURSIVE ScanHits(_, _)
ScanHits(from, hi) ==
  LET ahead == MatchStarts(from, hi)
      s == Lowest(ahead)
  IN  IF ahead = {} THEN {}
      ELSE {s} \cup ScanHits(s + MaxOf(1, MatchLength(s)), hi)

\* C2: over the range [lo, hi] a forward Find reports the lowest match and
\* a backward Find the highest hit of the non-overlapping left-to-right
\* scan; with exactly one match in range both report it, with none both
\* report NoMatch.  foo over "xx foo foo yy": forward (3, 3), backward (7, 3).
C2_ForwardFirstBackwardLast ==
  (call.op = "Find" /\ call.outcome \in {"Match", "NoMatch"}) =>
     LET lo == call.rangeBeg
         hi == call.rangeEnd
         all == MatchStarts(lo, hi)
         want == IF all = {} THEN ONIG_MISMATCH
                 ELSE IF call.findprevious THEN Highest(ScanHits(lo, hi))
                 ELSE Lowest(all)
     IN  /\ call.ret = want
         /\ call.outcome = (IF all = {} THEN "NoMatch" ELSE "Match")
         /\ call.length = (IF all = {} THEN 0 ELSE MatchLength(want))
         /\ Cardinality(all) = 1 => call.ret \in all
         /\ (doc = DocFoo /\ m_RegExprStrg = PatFoo /\ lo = 0 /\ hi = Len(doc)) =>
              /\ call.ret = (IF call.findprevious THEN 7 ELSE 3)
              /\ call.length = 3

\* C2 witness: a backward Find that scanned past an earlier hit and reports
\* a later one.
C2_Witness ==
  /\ call.op = "Find" /\ call.findprevious /\ call.outcome = "Match"
  /\ call.ret > Lowest(MatchStarts(call.rangeBeg, call.rangeEnd))
  /\ doc = DocFoo /\ call.ret = 7

\* C14: the backward scan of a Find ends.  Its first search starts at the
\* range's lower end; every search but the last found a match at or after
\* its start, and the next one starts at matchStart + max(1, matchLength),
\* strictly above the start before; the last search found nothing or started
\* beyond the range end; so the searches number at most the range's length
\* plus two.
C14_BackwardScanAdvances ==
  (call.op = "Find" /\ call.findprevious /\ call.outcome \in {"Match", "NoMatch"}) =>
     /\ Len(call.searches) >= 1
     /\ call.searches[1].start = call.rangeBeg
     /\ \A i \in 1..(Len(call.searches) - 1) :
          /\ call.searches[i].result >= call.searches[i].start
          /\ call.searches[i].start <= call.rangeEnd
          /\ call.searches[i + 1].start
               = call.searches[i].result
                   + MaxOf(1, MatchLength(call.searches[i].result))
          /\ call.searches[i + 1].start > call.searches[i].start
     /\ \/ call.searches[Len(call.searches)].result < 0
        \/ call.searches[Len(call.searches)].start > call.rangeEnd
     /\ Len(call.searches) <= (call.rangeEnd - call.rangeBeg) + 2

\* C14 witness: a backward Find whose every match is empty and that took
\* four searches, each one byte on, before it ended beyond the range.
C14_Witness ==
  /\ call.op = "Find" /\ call.findprevious /\ call.outcome = "Match"
  /\ m_RegExprStrg = PatNil /\ call.length = 0
  /\ Len(call.searches) >= 4
  /\ call.searches[Len(call.searches)].start > call.rangeEnd

(***************************************************************************)
(* TranslateSpec: translateRegExpr applied to every pattern of a bounded   *)
(* set, under every EOL mode and both word flags.                          *)
(***************************************************************************)
MaxPatLen == 4

PatAlphabet == {Chr("\\"), Chr("$"), Chr("<"), Chr(">"), Chr(".")}

TrPatterns == SeqsUpTo(PatAlphabet, MaxPatLen) \ {<<>>}

InitTranslate ==
  /\ doc = <<>>
  /\ eolMode \in {SC_EOL_CRLF, SC_EOL_CR, SC_EOL_LF}
  /\ FreshInstance
  /\ \E text \in TrPatterns, wholeWord \in BOOLEAN, wordStart \in BOOLEAN :
       call = [NoCall EXCEPT !.op = "pattern", !.text = text, !.word = wholeWord,
                             !.wordStart = wordStart]

Translate ==
  /\ call.op = "pattern"
  /\ \E tr \in {translateRegExpr(call.text, call.word, call.wordStart, eolMode, {})} :
       call' = [call EXCEPT !.op = "translate", !.sRegExprStrg = tr.str,
                            !.onigmoOptions = tr.opts]
  /\ UNCHANGED <<doc, eolMode, m_RegExprStrg, m_CmplOptions, m_RegExpr, m_Region,
                 m_MatchPos, m_MatchLen, m_SubstBuffer>>

TranslateSpec == InitTranslate /\ [][Translate]_vars

\* The text the EOL step of a translation is given.
BeforeEol == WordBoundaries(WordWrap(call.text, call.word, call.wordStart))

\* text read left to right from i, a backslash taking the character after
\* it with it: every '$' met outside such a pair (one preceded by an even
\* number of backslashes) becomes (?=\r), everything else is copied.
RECURSIVE RefEol(_, _)
RefEol(text, i) ==
  IF i >= Len(text) THEN <<>>
  ELSE IF At(text, i) = Chr("\\") /\ i + 1 < Len(text)
    THEN <<At(text, i), At(text, i + 1)>> \o RefEol(text, i + 2)
  ELSE IF At(text, i) = Chr("$") THEN EolRx \o RefEol(text, i + 1)
  ELSE <<At(text, i)>> \o RefEol(text, i + 1)

\* C15: for eolMode CR the EOL step rewrites every '$' preceded by an even
\* number of backslashes to (?=\r) and leaves every '$' preceded by an odd
\* number, with its backslash, as it was; for LF and CRLF the step leaves
\* the text it is given unchanged.
C15_EolStepRewritesUnescapedDollar ==
  call.op = "translate" =>
    call.sRegExprStrg = (IF eolMode = SC_EOL_CR THEN RefEol(BeforeEol, 0) ELSE BeforeEol)

\* text read left to right from i, a backslash taking the character after
\* it with it: the pair \< becomes the word-begin assertion, the pair \> the
\* word-end assertion, every other pair (the escaped backslash among them)
\* and every other character is copied.
RECURSIVE RefWords(_, _)
RefWords(text, i) ==
  IF i >= Len(text) THEN <<>>
  ELSE IF At(text, i) = Chr("\\") /\ i + 1 < Len(text)
    THEN (IF At(text, i + 1) = Chr("<") THEN WordBeginRx
          ELSE IF At(text, i + 1) = Chr(">") THEN WordEndRx
          ELSE <<At(text, i), At(text, i + 1)>>) \o RefWords(text, i + 2)
  ELSE <<At(text, i)>> \o RefWords(text, i + 1)

\* C16: the four replace-all steps turn every unescaped \< into
\* (?<!\w)(?=\w) and every unescaped \> into (?<=\w)(?!\w), and leave a
\* '<' or '>' that follows an escaped backslash, with that backslash, in
\* its literal form (seen where the EOL step changes nothing).
C16_BoundaryShorthandsExpanded ==
  (call.op = "translate" /\ eolMode /= SC_EOL_CR) =>
    call.sRegExprStrg = RefWords(WordWrap(call.text, call.word, call.wordStart), 0)

\* Every '.' of text replaced by \w.
RECURSIVE DotMap(_)
DotMap(text) ==
  IF text = <<>> THEN <<>>
  ELSE (IF Head(text) = Chr(".") THEN Str(<<"\\", "w">>) ELSE <<Head(text)>>)
         \o DotMap(Tail(text))

Dots(text) == Cardinality({i \in 1..Len(text) : text[i] = Chr(".")})

\* The translation of text with neither word flag.
Unwrapped(text) == translateRegExpr(text, FALSE, FALSE, eolMode, {}).str

\* C18: for a non-empty pattern, with wholeWord the engine text is \b, the
\* translation of the pattern with every '.' replaced by \w, and \b; with
\* wordStart alone it is \b and that translation, nothing appended; with
\* neither flag it is the translation of the pattern as given, its '.'
\* kept and no \b added.
C18_WordWrapAddsBoundaries ==
  (call.op = "translate" /\ call.text /= <<>>) =>
    /\ call.word =>
         /\ call.sRegExprStrg
              = Str(<<"\\", "b">>) \o Unwrapped(DotMap(call.text)) \o Str(<<"\\", "b">>)
         /\ Dots(call.sRegExprStrg) = 0
    /\ (call.wordStart /\ ~call.word) =>
         /\ call.sRegExprStrg = Str(<<"\\", "b">>) \o Unwrapped(DotMap(call.text))
         /\ Dots(call.sRegExprStrg) = 0
    /\ (~call.wordStart /\ ~call.word) =>
         /\ call.sRegExprStrg = Unwrapped(call.text)
         /\ Dots(call.sRegExprStrg) = Dots(call.text)

\* C18 witness: a whole-word translation of a pattern with a '.' in it.
C18_Witness ==
  /\ call.op = "translate" /\ call.word /\ Dots(call.text) > 0
  /\ SubSeq(call.sRegExprStrg, 1, 4) = Str(<<"\\", "b", "\\", "w">>)
  /\ SubSeq(call.sRegExprStrg, Len(call.sRegExprStrg) - 1, Len(call.sRegExprStrg))
       = Str(<<"\\", "b">>)

(***************************************************************************)
(* LifeSpec: an instance from construction to destruction.                 *)
(***************************************************************************)
\* The handles an instance holds through m_RegExpr.
Held(reg) == IF reg.null THEN 0 ELSE 1

\* Lines 87-92, the destructor: the region and the handle held are
\* released; no call follows it.
Destroy ==
  /\ ~Destroyed
  /\ m_Region' = onig_region_free(m_Region)
  /\ m_RegExpr' = NullRegex
  /\ call' = [NoCall EXCEPT !.op = "Destroy", !.released = Held(m_RegExpr),
                            !.lastFind = call.lastFind]
  /\ UNCHANGED <<doc, eolMode, m_RegExprStrg, m_CmplOptions, m_MatchPos, m_MatchLen,
                 m_SubstBuffer>>

LifeFind ==
  \E range \in Ranges, pattern \in Patterns :
       Find(range[1], range[2], pattern, TRUE, FALSE, FALSE, {}, 0)

LifeSpec == Init /\ [][LifeFind \/ Destroy]_vars

\* The match-region buffers allocated and not released.
LiveRegions == IF m_Region.state = "live" THEN 1 ELSE 0

\* C12: every step keeps the handles allocated and not released down to the
\* one the instance holds: the handle held before the step, plus those the
\* step allocates, less those it releases, is the handle held after it (a
\* recompile releases the handle it replaces); at most one region buffer is
\* live; and the destructor leaves no handle and no region buffer.
C12_AtMostOneHandleLive ==
  [][/\ Held(m_RegExpr) + call'.allocated - call'.released = Held(m_RegExpr')
     /\ LiveRegions' <= 1
     /\ Destroyed' => (Held(m_RegExpr') = 0 /\ LiveRegions' = 0)]_vars

====
